---- MODULE Spec2Model ----
(***************************************************************************)
(* State-machine model of src/script.js: the product picker (catalog       *)
(* cache, selection Map, localStorage record, product cards and chips)     *)
(* and the chat / routine handlers around the completion endpoint.         *)
(* Every event handler is one action; a handler that suspends at an await  *)
(* is split at the await into a start action and a resume action.          *)
(***************************************************************************)
EXTENDS Integers, Sequences, FiniteSets, TLC

\* ------------------------------------------------------------------ bounds
\* chat turns in a run: completion requests started (chat submits and routine
\* generations) plus "Select at least one product" notices shown
MaxTurns == 2
\* category-change handlers suspended in loadProducts at the same time
MaxCatLoads == 1
\* length of the text typed into the chat input
MaxTextLen == 2

\* ------------------------------------------------------- the environment
\* products.json (fetched at line 18): the two-product catalog of the
\* specification's scenario; only the fields the handlers branch on are kept.
Catalog ==
  << [id |-> 1, category |-> "skincare"], [id |-> 2, category |-> "hair"] >>

\* the values the category <select> can emit; "makeup" matches no product
Categories == {"skincare", "hair", "makeup"}

\* ids a record left in localStorage by an earlier session may hold:
\* the catalog's ids and one id the catalog no longer has
StoredIds == {1, 2, 9}

\* characters of the chat input
Chars == {" ", "a"}

\* what is typed: blank text, or one letter with blanks around it
Texts ==
  {s \in UNION {[1..n -> Chars] : n \in 0..MaxTextLen} :
     Cardinality({i \in 1..Len(s) : s[i] = "a"}) <= 1}

\* window.allProductsCache before the first successful load (undefined)
Undefined == <<>>

CatalogIds == {Catalog[i].id : i \in 1..Len(Catalog)}

DistinctSeqs(S) ==
  {s \in UNION {[1..n -> S] : n \in 0..Cardinality(S)} :
     \A i, j \in 1..Len(s) : i # j => s[i] # s[j]}

\* ------------------------------------------------------------- helpers
\* Array.prototype.find((p) => p.id === id): the matches in order; the
\* result of find is the head, and "not found" is the empty sequence
Find(products, id) == SelectSeq(products, LAMBDA p : p.id = id)

\* the Map selectedProducts, kept as its entries in insertion order
MapKeys(m) == [i \in 1..Len(m) |-> m[i].key]

MapHas(m, k) == \E i \in 1..Len(m) : m[i].key = k

MapDelete(m, k) == SelectSeq(m, LAMBDA e : e.key # k)

\* Map.prototype.set: an existing key keeps its place and gets the new value
MapSet(m, k, v) ==
  IF MapHas(m, k)
    THEN [i \in 1..Len(m) |-> IF m[i].key = k THEN [key |-> k, value |-> v] ELSE m[i]]
    ELSE Append(m, [key |-> k, value |-> v])

RECURSIVE TrimStart(_)
TrimStart(s) ==
  IF s # <<>> /\ Head(s) = " " THEN TrimStart(Tail(s)) ELSE s

RECURSIVE TrimEnd(_)
TrimEnd(s) ==
  IF s # <<>> /\ s[Len(s)] = " " THEN TrimEnd(SubSeq(s, 1, Len(s) - 1)) ELSE s

\* String.prototype.trim
Trim(s) == TrimEnd(TrimStart(s))

\* ------------------------------------------------------------------ state
VARIABLES
  allProductsCache,          \* window.allProductsCache: Undefined or the catalog
  cacheWrites,               \* how many times line 20 has assigned the cache: each
                             \* assignment stores the array of a fetch of its own
  selectedProducts,          \* the Map id -> product, entries in insertion order
  storage,                   \* localStorage[STORAGE_KEY]
  categoryFilter,            \* value of the category <select>
  productsContainer,         \* the product list: a notice, or cards with their .selected class
  selectedProductsList,      \* ids of the chips rendered (empty: the "none yet" notice)
  generateRoutineBtnDisabled,\* generateRoutineBtn.disabled
  sendBtnDisabled,           \* sendBtn.disabled
  chatWindow,                \* the .chat-message elements, in document order
  messages,                  \* the conversation history array
  requests,                  \* chat / routine handlers suspended in sendMessagesToAI
  restore,                   \* restoreSelectionsFromStorage: where it stands, and its local ids
  catLoads,                  \* category-change handlers suspended in loadProducts
  lastOp,                    \* history, kept by PickerSpec: the picker step taken last,
                             \* whether its storage write went through, the selection
                             \* and stored record it started from, and the same of
                             \* the step before it
  completion                 \* kept by CompletionSpec: a response handed to
                             \* sendMessagesToAI and what the function made of it

vars ==
  << allProductsCache, cacheWrites, selectedProducts, storage, categoryFilter,
     productsContainer, selectedProductsList, generateRoutineBtnDisabled, sendBtnDisabled,
     chatWindow, messages, requests, restore, catLoads, lastOp, completion >>

selectionVars ==
  << selectedProducts, storage, productsContainer, selectedProductsList >>

chatVars == << chatWindow, messages, requests >>

buttonVars == << generateRoutineBtnDisabled, sendBtnDisabled >>

loadVars == << allProductsCache, cacheWrites, restore, catLoads, categoryFilter >>

\* localStorage.getItem giving null
NoRecord == [kind |-> "null", ids |-> <<>>]

\* no call of sendMessagesToAI looked at yet
NoCompletion == [called |-> FALSE]

NoStep == [op |-> "init", id |-> 0, ok |-> TRUE, sel |-> <<>>, storage |-> NoRecord]

\* the history variable takes note of picker step op on product id
Record(op, id, ok) ==
  lastOp' = [op |-> op, id |-> id, ok |-> ok, sel |-> selectedProducts, storage |-> storage,
             prev |-> [op |-> lastOp.op, id |-> lastOp.id, ok |-> lastOp.ok,
                       sel |-> lastOp.sel, storage |-> lastOp.storage]]

\* ------------------------------------------------------ persisted record
\* a value JSON.parse rejects, or one that is not an array
BadRecord == [kind |-> "bad", ids |-> <<>>]

IdsRecord(ids) == [kind |-> "ids", ids |-> ids]

\* what an earlier session (or anything else) may have left under the key
InitStorage ==
  {NoRecord, BadRecord} \cup {IdsRecord(s) : s \in DistinctSeqs(StoredIds)}

\* the records the whole-application specification starts from
SessionStorage == {NoRecord, IdsRecord(<<2, 1>>), IdsRecord(<<1, 9>>)}

\* saveSelectionsToStorage; ok = FALSE is setItem throwing, which is caught
saveSelectionsToStorage(sel, st, ok) ==
  IF ok THEN IdsRecord(MapKeys(sel)) ELSE st

\* ------------------------------------------------------------ rendering
InitialNotice == [msg |-> "Select a category to view products", cards |-> <<>>]

\* displayProducts: the notice for an empty list, else one card per product,
\* each marked .selected when its id is a key of the selection
displayProducts(products, sel) ==
  IF Len(products) = 0
    THEN [msg |-> "No products found in this category", cards |-> <<>>]
    ELSE [msg |-> "",
          cards |-> [i \in 1..Len(products) |->
                       [id |-> products[i].id,
                        selected |-> MapHas(sel, products[i].id)]]]

\* updateCardHighlight: the card with that id, if shown, follows the selection
updateCardHighlight(container, sel, productId) ==
  [container EXCEPT !.cards =
     [i \in 1..Len(container.cards) |->
        IF container.cards[i].id = productId
          THEN [container.cards[i] EXCEPT !.selected = MapHas(sel, productId)]
          ELSE container.cards[i]]]

RECURSIVE HighlightAll(_, _, _)
HighlightAll(container, sel, ids) ==
  IF ids = <<>> THEN container
  ELSE HighlightAll(updateCardHighlight(container, sel, Head(ids)), sel, Tail(ids))

\* clearSelections: every .product-card.selected loses the class
ClearHighlights(container) ==
  [container EXCEPT !.cards =
     [i \in 1..Len(container.cards) |-> [container.cards[i] EXCEPT !.selected = FALSE]]]

CardIds(container) == {container.cards[i].id : i \in 1..Len(container.cards)}

\* renderSelectedProducts: the chips, and the routine button's disabled flag
RenderedChips(sel) == MapKeys(sel)

RenderedDisabled(sel) == Len(sel) = 0

\* ------------------------------------------------------------ selection
\* toggleSelection without line 225's delete: a selected product stays selected
toggleSelectionNoDelete(sel, cache, productId) ==
  LET found == Find(cache, productId) IN
  IF found = <<>> THEN sel ELSE MapSet(sel, productId, Head(found))

\* toggleSelection with the Map emptied before line 226's set
toggleSelectionSingle(sel, cache, productId) ==
  LET found == Find(cache, productId) IN
  IF found = <<>> THEN sel
  ELSE IF MapHas(sel, productId) THEN MapDelete(sel, productId)
  ELSE MapSet(<<>>, productId, Head(found))

\* toggleSelection's update of the Map: nothing for an id the cache lacks
toggleSelection(sel, cache, productId) ==
  LET found == Find(cache, productId) IN
  IF found = <<>> THEN sel
  ELSE IF MapHas(sel, productId) THEN MapDelete(sel, productId)
  ELSE MapSet(sel, productId, Head(found))

\* lines 83-86 stopping after the first stored id
restoreEntriesFirstOnly(sel, cache, ids) ==
  IF ids = <<>> THEN sel
  ELSE LET found == Find(cache, Head(ids)) IN
       IF found # <<>> THEN MapSet(sel, Head(ids), Head(found)) ELSE sel

\* lines 83-86 without line 85's `if (prod)`: an id the cache lacks is set too
RECURSIVE restoreEntriesUnchecked(_, _, _)
restoreEntriesUnchecked(sel, cache, ids) ==
  IF ids = <<>> THEN sel
  ELSE LET found == Find(cache, Head(ids)) IN
       restoreEntriesUnchecked(
         MapSet(sel, Head(ids),
                IF found # <<>> THEN Head(found) ELSE [id |-> Head(ids), category |-> ""]),
         cache, Tail(ids))

\* restoreSelectionsFromStorage, lines 83-86: each stored id the cache has is set
RECURSIVE restoreEntries(_, _, _)
restoreEntries(sel, cache, ids) ==
  IF ids = <<>> THEN sel
  ELSE LET found == Find(cache, Head(ids)) IN
       restoreEntries(IF found # <<>> THEN MapSet(sel, Head(ids), Head(found)) ELSE sel,
                      cache, Tail(ids))

\* ----------------------------------------------------------------- chat
\* the seed of the conversation history (lines 28-34)
SystemMessage ==
  [role |-> "system", content |-> [kind |-> "prompt", text |-> <<>>, products |-> <<>>]]

UserMessage(text) ==
  [role |-> "user", content |-> [kind |-> "text", text |-> text, products |-> <<>>]]

\* the routine request (lines 346-368): the template around the selected products
RoutineMessage(sel) ==
  [role |-> "user",
   content |-> [kind |-> "routine", text |-> <<>>,
                products |-> [i \in 1..Len(sel) |-> sel[i].value]]]

AssistantMessage(text) ==
  [role |-> "assistant", content |-> [kind |-> "text", text |-> text, products |-> <<>>]]

NumUser(log) == Len(SelectSeq(log, LAMBDA m : m.role = "user"))

\* appendMessageToChat: one more element, its text trimmed.  kind names the
\* fixed wording around the text; req is the request whose handler appended it
\* (0: none), kept to tell the elements apart.
appendMessageToChat(window, role, kind, text, req) ==
  Append(window, [role |-> role, kind |-> kind, text |-> Trim(text), req |-> req])

\* lines 308-309 and 377-378: the last .chat-message.assistant element is removed
LastAssistant(window) ==
  LET idx == {i \in 1..Len(window) : window[i].role = "assistant"} IN
  IF idx = {} THEN 0 ELSE CHOOSE i \in idx : \A j \in idx : j <= i

RemoveLastAssistant(window) ==
  LET k == LastAssistant(window) IN
  IF k = 0 THEN window
  ELSE [i \in 1..(Len(window) - 1) |-> IF i < k THEN window[i] ELSE window[i + 1]]

\* a field the response JSON does not have
Absent == <<"absent">>

NoData ==
  [content |-> Absent, text |-> Absent, answer |-> Absent, message |-> Absent,
   choicesMessageContent |-> Absent, choicesText |-> Absent]

\* what the worker may answer: fetch rejecting, a non-2xx status, JSON without
\* any text, and the two payload shapes of lines 120 and 124
Responses ==
  { [net |-> FALSE, ok |-> FALSE, data |-> NoData],
    [net |-> TRUE, ok |-> FALSE, data |-> NoData],
    [net |-> TRUE, ok |-> TRUE, data |-> NoData],
    [net |-> TRUE, ok |-> TRUE, data |-> [NoData EXCEPT !.content = <<" ", "r">>]],
    [net |-> TRUE, ok |-> TRUE, data |-> [NoData EXCEPT !.choicesMessageContent = <<"r">>]] }

\* a || operand that is undefined or "" falls through to the next one
Falsy(v) == v = Absent \/ v = <<>>

\* lines 119-126 with the operands `data?.content` and `data?.text` swapped
ExtractTextSwapped(data) ==
  IF ~Falsy(data.text) THEN data.text
  ELSE IF ~Falsy(data.content) THEN data.content
  ELSE IF ~Falsy(data.answer) THEN data.answer
  ELSE IF ~Falsy(data.message) THEN data.message
  ELSE IF ~Falsy(data.choicesMessageContent) THEN data.choicesMessageContent
  ELSE IF ~Falsy(data.choicesText) THEN data.choicesText
  ELSE Absent

\* lines 119-126: the first truthy field, or null (Absent)
ExtractText(data) ==
  IF ~Falsy(data.content) THEN data.content
  ELSE IF ~Falsy(data.text) THEN data.text
  ELSE IF ~Falsy(data.answer) THEN data.answer
  ELSE IF ~Falsy(data.message) THEN data.message
  ELSE IF ~Falsy(data.choicesMessageContent) THEN data.choicesMessageContent
  ELSE IF ~Falsy(data.choicesText) THEN data.choicesText
  ELSE Absent

\* sendMessagesToAI once the response is in: it throws, or returns trimmed text
sendMessagesToAI(resp) ==
  IF ~resp.net \/ ~resp.ok THEN [threw |-> TRUE, text |-> <<>>]
  ELSE IF Falsy(ExtractText(resp.data)) THEN [threw |-> TRUE, text |-> <<>>]
  ELSE [threw |-> FALSE, text |-> Trim(ExtractText(resp.data))]

\* what one field of the response JSON may hold: nothing (undefined or null),
\* the empty string, a blank string, or text of its own with blanks around it
FieldValues(letter) == {Absent, <<>>, <<" ">>, <<" ", letter, " ">>}

\* every response JSON over those values, each field with its own letter
AllData ==
  [content : FieldValues("c"), text : FieldValues("t"), answer : FieldValues("a"),
   message : FieldValues("m"), choicesMessageContent : FieldValues("o"),
   choicesText : FieldValues("x")]

\* the outcomes of the fetch of line 101: rejected, a non-2xx status, or a
\* 2xx status with any of the JSON bodies
CompletionResponses ==
  { [net |-> FALSE, ok |-> FALSE, data |-> NoData],
    [net |-> TRUE, ok |-> FALSE, data |-> NoData] }
    \cup { [net |-> TRUE, ok |-> TRUE, data |-> d] : d \in AllData }

\* ----------------------------------------------------------------- Init
\* the state once the script has run: empty Map, seeded history, the initial
\* notice, the first renderSelectedProducts() of line 323, load event pending
Started ==
  /\ allProductsCache = Undefined
  /\ cacheWrites = 0
  /\ selectedProducts = <<>>
  /\ categoryFilter = ""
  /\ productsContainer = InitialNotice
  /\ selectedProductsList = RenderedChips(<<>>)
  /\ generateRoutineBtnDisabled = RenderedDisabled(<<>>)
  /\ sendBtnDisabled = FALSE
  /\ chatWindow = <<>>
  /\ messages = <<SystemMessage>>
  /\ requests = {}
  /\ restore = [pc |-> "idle", ids |-> <<>>]
  /\ catLoads = 0
  /\ lastOp = [op |-> "init", id |-> 0, ok |-> TRUE, sel |-> <<>>, storage |-> NoRecord,
               prev |-> NoStep]
  /\ completion = NoCompletion

Init == storage \in SessionStorage /\ Started

PickerInit == storage \in InitStorage /\ Started

\* ------------------------------------------------------- catalog loading
\* the change handler's filter (lines 285-287)
FilterByCategory(products, category) ==
  SelectSeq(products, LAMBDA p : p.category = category)

\* lines 83-88 alone: the restore without line 90's updateCardHighlight calls
RestoreFinishNoHighlight(cache, ids) ==
  LET sel == restoreEntries(selectedProducts, cache, ids) IN
  /\ selectedProducts' = sel
  /\ selectedProductsList' = RenderedChips(sel)
  /\ generateRoutineBtnDisabled' = RenderedDisabled(sel)
  /\ UNCHANGED productsContainer
  /\ restore' = [pc |-> "done", ids |-> <<>>]

\* lines 83-90 of restoreSelectionsFromStorage, run with the cache in hand:
\* set the stored ids the cache has, render, re-mark the cards of the stored ids
RestoreFinish(cache, ids) ==
  LET sel == restoreEntries(selectedProducts, cache, ids) IN
  /\ selectedProducts' = sel
  /\ selectedProductsList' = RenderedChips(sel)
  /\ generateRoutineBtnDisabled' = RenderedDisabled(sel)
  /\ productsContainer' = HighlightAll(productsContainer, sel, ids)
  /\ restore' = [pc |-> "done", ids |-> <<>>]

\* the window load event: restoreSelectionsFromStorage up to its await.  With
\* no record or a malformed one it returns; with the cache filled loadProducts
\* returns at once and the rest runs in the same turn; else it waits for the fetch.
RestoreStart ==
  /\ restore.pc = "idle"
  /\ UNCHANGED << allProductsCache, cacheWrites, storage, categoryFilter, catLoads,
                  sendBtnDisabled >>
  /\ UNCHANGED chatVars
  /\ IF storage.kind # "ids"
       THEN /\ restore' = [pc |-> "done", ids |-> <<>>]
            /\ UNCHANGED << selectedProducts, selectedProductsList,
                            generateRoutineBtnDisabled, productsContainer >>
       ELSE IF allProductsCache # Undefined
         THEN RestoreFinish(allProductsCache, storage.ids)
         ELSE /\ restore' = [pc |-> "loading", ids |-> storage.ids]
              /\ UNCHANGED << selectedProducts, selectedProductsList,
                              generateRoutineBtnDisabled, productsContainer >>

\* restore's fetch settles: a failure is caught and logged (line 92); a success
\* fills the cache (line 20) and the rest of the function runs
RestoreResume(fetched) ==
  /\ restore.pc = "loading"
  /\ UNCHANGED << storage, categoryFilter, catLoads, sendBtnDisabled >>
  /\ UNCHANGED chatVars
  /\ IF fetched
       THEN /\ allProductsCache' = Catalog
            /\ cacheWrites' = cacheWrites + 1
            /\ RestoreFinish(Catalog, restore.ids)
       ELSE /\ restore' = [pc |-> "done", ids |-> <<>>]
            /\ UNCHANGED << allProductsCache, cacheWrites, selectedProducts,
                            selectedProductsList, generateRoutineBtnDisabled,
                            productsContainer >>

\* the category <select> changes: with the cache filled the list is shown in
\* the same turn, else the handler waits in loadProducts
CategoryChange(category) ==
  /\ category # categoryFilter
  /\ categoryFilter' = category
  /\ UNCHANGED << allProductsCache, cacheWrites, selectedProducts, storage,
                  selectedProductsList, restore >>
  /\ UNCHANGED chatVars
  /\ UNCHANGED buttonVars
  /\ IF allProductsCache # Undefined
       THEN /\ productsContainer' =
                 displayProducts(FilterByCategory(allProductsCache, category),
                                 selectedProducts)
            /\ UNCHANGED catLoads
       ELSE /\ catLoads < MaxCatLoads
            /\ catLoads' = catLoads + 1
            /\ UNCHANGED productsContainer

\* a waiting change handler's fetch settles.  A failure leaves the handler
\* with a rejected promise nobody catches; a success fills the cache and shows
\* the products of the category the <select> holds now (e.target.value, line 284)
CategoryResume(fetched) ==
  /\ catLoads > 0
  /\ catLoads' = catLoads - 1
  /\ UNCHANGED << selectedProducts, storage, selectedProductsList, restore, categoryFilter >>
  /\ UNCHANGED chatVars
  /\ UNCHANGED buttonVars
  /\ IF fetched
       THEN /\ allProductsCache' = Catalog
            /\ cacheWrites' = cacheWrites + 1
            /\ productsContainer' =
                 displayProducts(FilterByCategory(Catalog, categoryFilter),
                                 selectedProducts)
       ELSE UNCHANGED << allProductsCache, cacheWrites, productsContainer >>

\* ------------------------------------------------------ selection handlers
\* toggleSelection(productId), lines 219-231: it returns at line 223 for an id
\* the cache lacks; else it flips the id, re-marks its card, renders and saves
ToggleCall(productId, ok) ==
  /\ UNCHANGED loadVars
  /\ UNCHANGED chatVars
  /\ UNCHANGED sendBtnDisabled
  /\ IF Find(allProductsCache, productId) = <<>>
       THEN UNCHANGED << selectedProducts, storage, productsContainer,
                         selectedProductsList, generateRoutineBtnDisabled >>
       ELSE LET sel == toggleSelection(selectedProducts, allProductsCache, productId) IN
            /\ selectedProducts' = sel
            /\ productsContainer' = updateCardHighlight(productsContainer, sel, productId)
            /\ selectedProductsList' = RenderedChips(sel)
            /\ generateRoutineBtnDisabled' = RenderedDisabled(sel)
            /\ storage' = saveSelectionsToStorage(sel, storage, ok)

\* a click (or Enter / Space) on a card shown: toggleSelection(id)
ToggleSelection(productId, ok) ==
  /\ productId \in CardIds(productsContainer)
  /\ ToggleCall(productId, ok)

\* the remove handler without line 275's saveSelectionsToStorage()
RemoveSelectionNoSave(productId, ok) ==
  /\ \E i \in 1..Len(selectedProductsList) : selectedProductsList[i] = productId
  /\ UNCHANGED loadVars
  /\ UNCHANGED chatVars
  /\ UNCHANGED sendBtnDisabled
  /\ LET sel == MapDelete(selectedProducts, productId) IN
     /\ selectedProducts' = sel
     /\ productsContainer' = updateCardHighlight(productsContainer, sel, productId)
     /\ selectedProductsList' = RenderedChips(sel)
     /\ generateRoutineBtnDisabled' = RenderedDisabled(sel)
     /\ UNCHANGED storage

\* a click on the remove button of a chip (lines 270-277)
RemoveSelection(productId, ok) ==
  /\ \E i \in 1..Len(selectedProductsList) : selectedProductsList[i] = productId
  /\ UNCHANGED loadVars
  /\ UNCHANGED chatVars
  /\ UNCHANGED sendBtnDisabled
  /\ LET sel == MapDelete(selectedProducts, productId) IN
     /\ selectedProducts' = sel
     /\ productsContainer' = updateCardHighlight(productsContainer, sel, productId)
     /\ selectedProductsList' = RenderedChips(sel)
     /\ generateRoutineBtnDisabled' = RenderedDisabled(sel)
     /\ storage' = saveSelectionsToStorage(sel, storage, ok)

\* the clear-all button (lines 333-341)
ClearSelections(ok) ==
  /\ UNCHANGED loadVars
  /\ UNCHANGED chatVars
  /\ UNCHANGED sendBtnDisabled
  /\ selectedProducts' = <<>>
  /\ productsContainer' = ClearHighlights(productsContainer)
  /\ selectedProductsList' = RenderedChips(<<>>)
  /\ generateRoutineBtnDisabled' = RenderedDisabled(<<>>)
  /\ storage' = saveSelectionsToStorage(<<>>, storage, ok)

\* ----------------------------------------------------------- chat handlers
NumGuidance(window) == Len(SelectSeq(window, LAMBDA e : e.kind = "guidance"))

Turns == NumUser(messages) + NumGuidance(chatWindow)

\* the submit handler without line 295's trim
ChatSubmitNoTrim(input) ==
  LET text == input
      req == NumUser(messages) + 1
      log == Append(messages, UserMessage(text))
  IN
  /\ ~sendBtnDisabled
  /\ UNCHANGED loadVars
  /\ UNCHANGED selectionVars
  /\ IF text = <<>>
       THEN /\ UNCHANGED chatVars
            /\ UNCHANGED buttonVars
       ELSE /\ Turns < MaxTurns
            /\ messages' = log
            /\ chatWindow' =
                 appendMessageToChat(
                   appendMessageToChat(chatWindow, "user", "text", text, req),
                   "assistant", "thinking", <<>>, req)
            /\ sendBtnDisabled' = TRUE
            /\ generateRoutineBtnDisabled' = TRUE
            /\ requests' = requests \cup {[id |-> req, kind |-> "chat", body |-> log]}

\* the chat form is submitted with `input` in the text field (lines 292-304).
\* A disabled submit button blocks the submission.  Blank text returns at
\* line 296; other text is pushed, shown, the buttons are disabled, the
\* placeholder is shown and the handler waits in sendMessagesToAI(messages).
ChatSubmit(input) ==
  LET text == Trim(input)
      req == NumUser(messages) + 1
      log == Append(messages, UserMessage(text))
  IN
  /\ ~sendBtnDisabled
  /\ UNCHANGED loadVars
  /\ UNCHANGED selectionVars
  /\ IF text = <<>>
       THEN /\ UNCHANGED chatVars
            /\ UNCHANGED buttonVars
       ELSE /\ Turns < MaxTurns
            /\ messages' = log
            /\ chatWindow' =
                 appendMessageToChat(
                   appendMessageToChat(chatWindow, "user", "text", text, req),
                   "assistant", "thinking", <<>>, req)
            /\ sendBtnDisabled' = TRUE
            /\ generateRoutineBtnDisabled' = TRUE
            /\ requests' = requests \cup {[id |-> req, kind |-> "chat", body |-> log]}

\* the chat handler with lines 317-318 moved from `finally` to the end of
\* `try`: a failure leaves the buttons as they are
ChatResumeNoFinally(r, resp) ==
  LET result == sendMessagesToAI(resp) IN
  /\ r \in requests
  /\ r.kind = "chat"
  /\ UNCHANGED loadVars
  /\ UNCHANGED selectionVars
  /\ requests' = requests \ {r}
  /\ IF result.threw
       THEN /\ chatWindow' = appendMessageToChat(chatWindow, "assistant", "error", <<>>, r.id)
            /\ UNCHANGED messages
            /\ UNCHANGED buttonVars
       ELSE /\ chatWindow' =
                 appendMessageToChat(RemoveLastAssistant(chatWindow),
                                     "assistant", "text", result.text, r.id)
            /\ messages' = Append(messages, AssistantMessage(result.text))
            /\ sendBtnDisabled' = FALSE
            /\ generateRoutineBtnDisabled' = FALSE

\* the chat handler with the error notice of line 315 pushed to the history too
ChatResumePushError(r, resp) ==
  LET result == sendMessagesToAI(resp) IN
  /\ r \in requests
  /\ r.kind = "chat"
  /\ UNCHANGED loadVars
  /\ UNCHANGED selectionVars
  /\ requests' = requests \ {r}
  /\ IF result.threw
       THEN /\ chatWindow' = appendMessageToChat(chatWindow, "assistant", "error", <<>>, r.id)
            /\ messages' =
                 Append(messages,
                        [role |-> "assistant",
                         content |-> [kind |-> "error", text |-> <<>>, products |-> <<>>]])
       ELSE /\ chatWindow' =
                 appendMessageToChat(RemoveLastAssistant(chatWindow),
                                     "assistant", "text", result.text, r.id)
            /\ messages' = Append(messages, AssistantMessage(result.text))
  /\ sendBtnDisabled' = FALSE
  /\ generateRoutineBtnDisabled' = FALSE

\* the chat handler's request settles (lines 306-319)
ChatResume(r, resp) ==
  LET result == sendMessagesToAI(resp) IN
  /\ r \in requests
  /\ r.kind = "chat"
  /\ UNCHANGED loadVars
  /\ UNCHANGED selectionVars
  /\ requests' = requests \ {r}
  /\ IF result.threw
       THEN /\ chatWindow' = appendMessageToChat(chatWindow, "assistant", "error", <<>>, r.id)
            /\ UNCHANGED messages
       ELSE /\ chatWindow' =
                 appendMessageToChat(RemoveLastAssistant(chatWindow),
                                     "assistant", "text", result.text, r.id)
            /\ messages' = Append(messages, AssistantMessage(result.text))
  /\ sendBtnDisabled' = FALSE
  /\ generateRoutineBtnDisabled' = FALSE

\* the routine handler without the check of lines 354-360
GenerateRoutineNoCheck ==
  LET req == NumUser(messages) + 1
      log == Append(messages, RoutineMessage(selectedProducts))
  IN
  /\ ~generateRoutineBtnDisabled
  /\ UNCHANGED loadVars
  /\ UNCHANGED selectionVars
  /\ Turns < MaxTurns
  /\ messages' = log
  /\ chatWindow' =
       appendMessageToChat(
         appendMessageToChat(chatWindow, "user", "selected", <<>>, req),
         "assistant", "generating", <<>>, req)
  /\ generateRoutineBtnDisabled' = TRUE
  /\ sendBtnDisabled' = TRUE
  /\ requests' = requests \cup {[id |-> req, kind |-> "routine", body |-> log]}

\* a click on the routine button, which a disabled button does not deliver
\* (lines 345-373): with nothing selected one notice is shown; else the
\* request is pushed, labelled in the chat, and the handler waits
GenerateRoutine ==
  LET req == NumUser(messages) + 1
      log == Append(messages, RoutineMessage(selectedProducts))
  IN
  /\ ~generateRoutineBtnDisabled
  /\ UNCHANGED loadVars
  /\ UNCHANGED selectionVars
  /\ IF Len(selectedProducts) = 0
       THEN /\ Turns < MaxTurns
            /\ chatWindow' = appendMessageToChat(chatWindow, "assistant", "guidance", <<>>, 0)
            /\ UNCHANGED << messages, requests >>
            /\ UNCHANGED buttonVars
       ELSE /\ Turns < MaxTurns
            /\ messages' = log
            /\ chatWindow' =
                 appendMessageToChat(
                   appendMessageToChat(chatWindow, "user", "selected", <<>>, req),
                   "assistant", "generating", <<>>, req)
            /\ generateRoutineBtnDisabled' = TRUE
            /\ sendBtnDisabled' = TRUE
            /\ requests' = requests \cup {[id |-> req, kind |-> "routine", body |-> log]}

\* the routine handler with the reply written over the last entry of the
\* history instead of pushed (line 381)
RoutineResumeOverwrite(r, resp) ==
  LET result == sendMessagesToAI(resp) IN
  /\ r \in requests
  /\ r.kind = "routine"
  /\ UNCHANGED loadVars
  /\ UNCHANGED selectionVars
  /\ requests' = requests \ {r}
  /\ IF result.threw
       THEN /\ chatWindow' =
                 appendMessageToChat(chatWindow, "assistant", "errorRoutine", <<>>, r.id)
            /\ UNCHANGED messages
       ELSE /\ chatWindow' =
                 appendMessageToChat(RemoveLastAssistant(chatWindow),
                                     "assistant", "text", result.text, r.id)
            /\ messages' = [messages EXCEPT ![Len(messages)] = AssistantMessage(result.text)]
  /\ generateRoutineBtnDisabled' = FALSE
  /\ sendBtnDisabled' = FALSE

\* the routine handler's request settles (lines 375-391)
RoutineResume(r, resp) ==
  LET result == sendMessagesToAI(resp) IN
  /\ r \in requests
  /\ r.kind = "routine"
  /\ UNCHANGED loadVars
  /\ UNCHANGED selectionVars
  /\ requests' = requests \ {r}
  /\ IF result.threw
       THEN /\ chatWindow' =
                 appendMessageToChat(chatWindow, "assistant", "errorRoutine", <<>>, r.id)
            /\ UNCHANGED messages
       ELSE /\ chatWindow' =
                 appendMessageToChat(RemoveLastAssistant(chatWindow),
                                     "assistant", "text", result.text, r.id)
            /\ messages' = Append(messages, AssistantMessage(result.text))
  /\ generateRoutineBtnDisabled' = FALSE
  /\ sendBtnDisabled' = FALSE

\* ------------------------------------------------------------------ Next
\* the whole application; storage writes succeed
Next ==
  \/ RestoreStart /\ UNCHANGED << lastOp, completion >>
  \/ \E fetched \in BOOLEAN : RestoreResume(fetched) /\ UNCHANGED << lastOp, completion >>
  \/ \E category \in Categories : CategoryChange(category) /\ UNCHANGED << lastOp, completion >>
  \/ \E fetched \in BOOLEAN : CategoryResume(fetched) /\ UNCHANGED << lastOp, completion >>
  \/ \E productId \in CatalogIds : ToggleSelection(productId, TRUE) /\ UNCHANGED << lastOp, completion >>
  \/ \E productId \in CatalogIds : RemoveSelection(productId, TRUE) /\ UNCHANGED << lastOp, completion >>
  \/ ClearSelections(TRUE) /\ UNCHANGED << lastOp, completion >>
  \/ \E input \in Texts : ChatSubmit(input) /\ UNCHANGED << lastOp, completion >>
  \/ \E r \in requests, resp \in Responses : ChatResume(r, resp) /\ UNCHANGED << lastOp, completion >>
  \/ GenerateRoutine /\ UNCHANGED << lastOp, completion >>
  \/ \E r \in requests, resp \in Responses : RoutineResume(r, resp) /\ UNCHANGED << lastOp, completion >>

Spec == Init /\ [][Next]_vars

\* the picker alone (the chat handlers write none of its variables but the
\* routine button's flag): any stored record, storage writes that may throw,
\* and the history of the step taken last
PickerNext ==
  \/ RestoreStart /\ Record("restoreStart", 0, TRUE) /\ UNCHANGED completion
  \/ \E fetched \in BOOLEAN : RestoreResume(fetched) /\ Record("restoreResume", 0, TRUE) /\ UNCHANGED completion
  \/ \E category \in Categories : CategoryChange(category) /\ Record("categoryChange", 0, TRUE) /\ UNCHANGED completion
  \/ \E fetched \in BOOLEAN : CategoryResume(fetched) /\ Record("categoryResume", 0, TRUE) /\ UNCHANGED completion
  \/ \E productId \in CatalogIds, ok \in BOOLEAN :
       ToggleSelection(productId, ok) /\ Record("toggle", productId, ok) /\ UNCHANGED completion
  \/ \E productId \in CatalogIds, ok \in BOOLEAN :
       RemoveSelection(productId, ok) /\ Record("remove", productId, ok) /\ UNCHANGED completion
  \/ \E ok \in BOOLEAN : ClearSelections(ok) /\ Record("clear", 0, ok) /\ UNCHANGED completion

PickerSpec == PickerInit /\ [][PickerNext]_vars

\* toggleSelection as a function of the page: besides the card clicks, a call
\* with any id at any moment (the function is a global of the page), next to
\* the restore and the category changes that fill the cache and show cards
ToggleNext ==
  \/ RestoreStart /\ Record("restoreStart", 0, TRUE) /\ UNCHANGED completion
  \/ \E fetched \in BOOLEAN : RestoreResume(fetched) /\ Record("restoreResume", 0, TRUE) /\ UNCHANGED completion
  \/ \E category \in Categories : CategoryChange(category) /\ Record("categoryChange", 0, TRUE) /\ UNCHANGED completion
  \/ \E fetched \in BOOLEAN : CategoryResume(fetched) /\ Record("categoryResume", 0, TRUE) /\ UNCHANGED completion
  \/ \E productId \in StoredIds, ok \in BOOLEAN :
       ToggleCall(productId, ok) /\ Record("toggle", productId, ok) /\ UNCHANGED completion

ToggleSpec == Init /\ [][ToggleNext]_vars

\* sendMessagesToAI on its own: one call, with any response
Complete(resp) ==
  /\ ~completion.called
  /\ completion' = [called |-> TRUE, resp |-> resp, result |-> sendMessagesToAI(resp)]
  /\ UNCHANGED << allProductsCache, cacheWrites, selectedProducts, storage,
                  categoryFilter, productsContainer, selectedProductsList,
                  generateRoutineBtnDisabled, sendBtnDisabled, chatWindow, messages,
                  requests, restore, catLoads, lastOp >>

CompletionInit == storage = NoRecord /\ Started

CompletionNext == \E resp \in CompletionResponses : Complete(resp)

CompletionSpec == CompletionInit /\ [][CompletionNext]_vars

\* ============================================================== claims
\* what the claims speak of
Entries(m) == {m[i] : i \in 1..Len(m)}

KeySet(m) == {m[i].key : i \in 1..Len(m)}

\* the set of ids a stored record encodes (none for a missing or malformed one)
RecordIdSet(st) == {st.ids[i] : i \in 1..Len(st.ids)}

\* the last two picker steps were toggleSelection(id) twice in a row, the
\* storage writes of both going through
ToggledTwice(id) ==
  /\ lastOp.op = "toggle" /\ lastOp.id = id /\ lastOp.ok
  /\ lastOp.prev.op = "toggle" /\ lastOp.prev.id = id /\ lastOp.prev.ok

\* C1 as stated: for every catalog id, two consecutive toggles leave the
\* selection unchanged and leave the stored record as it was before the first
\* toggle (read at its weakest: the record encodes the same set of ids).
C1_ToggleTwiceKeepsRecord ==
  \A id \in CatalogIds :
    ToggledTwice(id) =>
      /\ Entries(selectedProducts) = Entries(lastOp.prev.sel)
      /\ RecordIdSet(storage) = RecordIdSet(lastOp.prev.storage)

\* C1 amended: two consecutive toggles of a catalog id leave the selection's
\* id -> product mapping as it was (the insertion order may differ) and, the
\* writes succeeding, leave the stored record listing exactly the selected
\* ids; it encodes the id set it encoded before the first toggle whenever it
\* then listed exactly the selected ids.
C1_ToggleTwiceKeepsSelection ==
  \A id \in CatalogIds :
    ToggledTwice(id) =>
      /\ Entries(selectedProducts) = Entries(lastOp.prev.sel)
      /\ storage = IdsRecord(MapKeys(selectedProducts))
      /\ (lastOp.prev.storage.kind = "ids"
            /\ RecordIdSet(lastOp.prev.storage) = KeySet(lastOp.prev.sel))
           => RecordIdSet(storage) = RecordIdSet(lastOp.prev.storage)

\* C1 witness: the product selected first of two has just been toggled twice
\* in a row: the selection holds the same two entries in the other order, and
\* the stored record lists them in the new order.
C1_Witness ==
  /\ ToggledTwice(1)
  /\ MapKeys(lastOp.prev.sel) = <<1, 2>>
  /\ lastOp.prev.storage = IdsRecord(<<1, 2>>)
  /\ MapKeys(selectedProducts) = <<2, 1>>
  /\ storage = IdsRecord(<<2, 1>>)

\* a chat element that is the in-progress placeholder of request q
IsPlaceholder(e, q) == e.kind \in {"thinking", "generating"} /\ e.req = q

\* a chat element that is the error notice of request q
IsErrorNotice(e, q) == e.kind \in {"error", "errorRoutine"} /\ e.req = q

\* the step settles request r with a response that makes sendMessagesToAI throw
RequestFails(r, resp) ==
  /\ sendMessagesToAI(resp).threw
  /\ ChatResume(r, resp) \/ RoutineResume(r, resp)

\* the step settles request r, either way
RequestSettles(r, resp) == ChatResume(r, resp) \/ RoutineResume(r, resp)

\* C2 as stated: while a completion request is in flight the send button and
\* the routine button are both disabled, whatever else the user does, so no
\* second request is in flight beside it.
C2_ControlsDisabledInFlight ==
  requests # {} =>
    /\ sendBtnDisabled
    /\ generateRoutineBtnDisabled
    /\ Cardinality(requests) = 1

\* C3 as stated: once a request has failed its error notice is in the chat
\* window as an assistant element and its placeholder is no longer there.
C3_FailureRemovesPlaceholder ==
  \A i \in 1..Len(chatWindow), q \in 1..MaxTurns :
    IsErrorNotice(chatWindow[i], q) =>
      /\ chatWindow[i].role = "assistant"
      /\ \A j \in 1..Len(chatWindow) : ~IsPlaceholder(chatWindow[j], q)

\* C4 as stated: when a request fails the conversation history is exactly what
\* it was right after that request's user message was pushed (the array the
\* request was sent with): that message is last, nothing was added.
C4_FailureLeavesLogAsSent ==
  [][\A r \in requests, resp \in Responses :
       RequestFails(r, resp) =>
         /\ messages' = r.body
         /\ messages'[Len(messages')].role = "user"]_vars

\* C5: whenever a completion request settles, by a reply or by a failure, the
\* step leaves the send button and the routine button enabled.
C5_SettledReenablesControls ==
  [][\A r \in requests, resp \in Responses :
       RequestSettles(r, resp) =>
         /\ ~sendBtnDisabled'
         /\ ~generateRoutineBtnDisabled']_vars

\* C5 witness: a request has failed (its error notice is shown), nothing is in
\* flight and both buttons are enabled.
C5_Witness ==
  /\ requests = {}
  /\ \E i \in 1..Len(chatWindow) : chatWindow[i].kind \in {"error", "errorRoutine"}
  /\ ~sendBtnDisabled
  /\ ~generateRoutineBtnDisabled

\* the step is restoreSelectionsFromStorage running lines 83-90 with the stored
\* ids it read: in the same turn when the cache was filled, else when its fetch
\* succeeds
RestoreCompletes(ids) ==
  \/ /\ RestoreStart
     /\ storage.kind = "ids"
     /\ allProductsCache # Undefined
     /\ ids = storage.ids
  \/ /\ RestoreResume(TRUE)
     /\ ids = restore.ids

\* the Map a session holds that selected the catalog ids `ids` in that order
SelectionOf(ids) ==
  [i \in 1..Len(ids) |-> [key |-> ids[i], value |-> Head(Find(Catalog, ids[i]))]]

\* C6: for any non-empty list of distinct catalog ids left in storage by
\* saveSelectionsToStorage, restore on an empty selection yields exactly the
\* selection that was saved: the same ids, each mapped to its catalog product.
C6_RestoreRoundTrip ==
  [][\A ids \in DistinctSeqs(CatalogIds) \ {<<>>} :
       (RestoreCompletes(ids) /\ selectedProducts = <<>>) =>
          selectedProducts' = SelectionOf(ids)]_vars

\* C6 witness: a session that found [2, 1] stored has just finished its
\* restore on an empty selection, and holds products 2 and 1.
C6_Witness ==
  /\ lastOp.op = "restoreResume"
  /\ restore.pc = "done"
  /\ lastOp.sel = <<>>
  /\ lastOp.storage = IdsRecord(<<2, 1>>)
  /\ MapKeys(selectedProducts) = <<2, 1>>

\* C7: in every reachable state every key of the selection is the id of a
\* product of the loaded catalog, mapped to that product; a restore that read
\* an id the catalog lacks ends normally with that id left out.
C7_SelectionWithinCatalog ==
  \A i \in 1..Len(selectedProducts) :
    /\ allProductsCache # Undefined
    /\ selectedProducts[i].key \in CatalogIds
    /\ Find(allProductsCache, selectedProducts[i].key) = <<selectedProducts[i].value>>

\* C7 witness: the restore has ended with [1, 9] stored (9 is no catalog id)
\* and the selection holds product 1 alone.
C7_Witness ==
  /\ restore.pc = "done"
  /\ storage = IdsRecord(<<1, 9>>)
  /\ MapKeys(selectedProducts) = <<1>>

\* C8: a click on the routine button with nothing selected starts no request,
\* shows exactly one more chat element, the assistant's guidance notice, and
\* leaves the conversation history and both buttons' disabled flags as they were.
C8_EmptyRoutineOnlyGuides ==
  [][(GenerateRoutine /\ Len(selectedProducts) = 0) =>
       /\ requests' = requests
       /\ messages' = messages
       /\ UNCHANGED buttonVars
       /\ chatWindow' =
            Append(chatWindow,
                   [role |-> "assistant", kind |-> "guidance", text |-> <<>>, req |-> 0])]_vars

\* C8 witness: the guidance notice is shown, nothing is selected and no request
\* is in flight.
C8_Witness ==
  /\ \E i \in 1..Len(chatWindow) : chatWindow[i].kind = "guidance"
  /\ selectedProducts = <<>>
  /\ requests = {}

\* C9: submitting text that is blank after trimming changes neither the
\* history nor the requests nor the buttons; any other text appends exactly
\* one user message holding the trimmed text.
C9_BlankSubmitIsNoOp ==
  [][\A input \in Texts :
       ChatSubmit(input) =>
         IF Trim(input) = <<>>
           THEN /\ UNCHANGED << messages, requests >>
                /\ UNCHANGED buttonVars
           ELSE /\ Len(messages') = Len(messages) + 1
                /\ messages' = Append(messages, UserMessage(Trim(input)))]_vars

\* C9 witness: the history ends with the user message "a" of a chat submit
\* whose request is in flight.
C9_Witness ==
  /\ messages[Len(messages)] = UserMessage(<<"a">>)
  /\ \E r \in requests : r.kind = "chat" /\ r.body = messages

IsPrefix(s, t) == Len(s) <= Len(t) /\ SubSeq(t, 1, Len(s)) = s

\* C10: the conversation history always starts with the system message, holds
\* no other system message, and every step keeps the history it found as a
\* prefix of the new one.
C10_LogAppendOnly ==
  /\ [](/\ Len(messages) >= 1
        /\ messages[1] = SystemMessage
        /\ \A i \in 2..Len(messages) : messages[i].role # "system")
  /\ [][IsPrefix(messages, messages')]_vars

\* C10 witness: the history holds the routine request and the reply to it.
C10_Witness ==
  /\ Len(messages) = 3
  /\ messages[2].content.kind = "routine"
  /\ messages[3].role = "assistant"

\* the response shapes in the order the claim gives them
ShapeOrder ==
  << "content", "text", "answer", "message", "choicesMessageContent", "choicesText" >>

\* the places in ShapeOrder whose field holds a non-empty string
NonEmptyShapes(data) ==
  {i \in 1..Len(ShapeOrder) : data[ShapeOrder[i]] # Absent /\ data[ShapeOrder[i]] # <<>>}

FirstOf(S) == CHOOSE i \in S : \A j \in S : i <= j

\* C11: on a success response sendMessagesToAI returns the trimmed value of the
\* first of content, text, answer, message, choices[0].message.content,
\* choices[0].text that holds a non-empty value, and throws when none does.
C11_FirstNonEmptyShapeWins ==
  (completion.called /\ completion.resp.net /\ completion.resp.ok) =>
     LET data == completion.resp.data
         found == NonEmptyShapes(data)
     IN IF found = {}
          THEN completion.result.threw
          ELSE /\ ~completion.result.threw
               /\ completion.result.text = Trim(data[ShapeOrder[FirstOf(found)]])

\* C11 witness: content is the empty string, text and choices[0].text hold
\* text, the other fields are missing, and the call returned what text holds,
\* trimmed.
C11_Witness ==
  /\ completion.called
  /\ completion.resp.ok
  /\ completion.resp.data =
       [NoData EXCEPT !.content = <<>>, !.text = <<" ", "t", " ">>,
                      !.choicesText = <<" ", "x", " ">>]
  /\ completion.result = [threw |-> FALSE, text |-> <<"t">>]

\* the id is in the catalog the page holds (window.allProductsCache)
InCatalog(id) == Find(allProductsCache, id) # <<>>

\* C12: toggleSelection(id) for an id of the loaded catalog removes the id if
\* it is selected and inserts it otherwise, every other entry of the selection
\* staying as it is; for an id the catalog lacks it changes neither the
\* selection nor the stored record.
C12_ToggleFlipsExactlyOne ==
  [][\A id \in StoredIds, ok \in BOOLEAN :
       ToggleCall(id, ok) =>
         IF InCatalog(id)
           THEN /\ KeySet(selectedProducts') =
                     (IF id \in KeySet(selectedProducts)
                        THEN KeySet(selectedProducts) \ {id}
                        ELSE KeySet(selectedProducts) \cup {id})
                /\ {e \in Entries(selectedProducts') : e.key # id} =
                     {e \in Entries(selectedProducts) : e.key # id}
           ELSE UNCHANGED << selectedProducts, storage >>]_vars

\* C12 witness: with products 1 and 2 selected, toggleSelection(1) left
\* product 2 alone, and toggleSelection(9), 9 being no catalog id, then left
\* the selection and the stored record as they were.
C12_Witness ==
  /\ lastOp.op = "toggle" /\ lastOp.id = 9 /\ lastOp.ok
  /\ lastOp.prev.op = "toggle" /\ lastOp.prev.id = 1 /\ lastOp.prev.ok
  /\ MapKeys(lastOp.prev.sel) = <<1, 2>>
  /\ MapKeys(lastOp.sel) = <<2>>
  /\ MapKeys(selectedProducts) = <<2>>
  /\ storage = IdsRecord(<<2>>)
  /\ storage = lastOp.storage

\* the step starts a fetch of products.json: a handler goes to wait in
\* loadProducts at line 18
StartsFetch ==
  \/ catLoads' > catLoads
  \/ restore.pc # "loading" /\ restore'.pc = "loading"

\* C13 as stated: once a load has filled the cache, no step starts a fetch and
\* no step assigns the cache again.
C13_CacheFilledOnce ==
  [][allProductsCache # Undefined =>
       /\ ~StartsFetch
       /\ cacheWrites' = cacheWrites
       /\ allProductsCache' = allProductsCache]_vars

\* C14 as stated: when the fetch of a waiting category-change handler fails,
\* the step leaves the product list showing a message of its own in place of
\* the cards: not the list as it was, and not the prompt to pick a category.
C14_LoadFailureShowsNotice ==
  [][CategoryResume(FALSE) =>
       /\ productsContainer'.cards = <<>>
       /\ productsContainer'.msg \notin {"", InitialNotice.msg}
       /\ productsContainer' # productsContainer]_vars

\* C15: after a toggle, a remove or a clear whose storage write went through,
\* the stored record is a list of ids and the set of ids it lists is the key
\* set of the selection.
C15_RecordFollowsSelection ==
  (lastOp.op \in {"toggle", "remove", "clear"} /\ lastOp.ok) =>
     /\ storage.kind = "ids"
     /\ RecordIdSet(storage) = KeySet(selectedProducts)

\* C15 witness: product 1 was selected while the record still listed [1, 9]
\* from an earlier session; removing it left nothing selected and the record
\* listing nothing.
C15_Witness ==
  /\ lastOp.op = "remove" /\ lastOp.id = 1 /\ lastOp.ok
  /\ MapKeys(lastOp.sel) = <<1>>
  /\ lastOp.storage = IdsRecord(<<1, 9>>)
  /\ selectedProducts = <<>>
  /\ storage = IdsRecord(<<>>)

\* the texts sendMessagesToAI can return
Replies == {sendMessagesToAI(resp).text : resp \in {x \in Responses : ~sendMessagesToAI(x).threw}}

\* what the user can contribute: typed text, non-blank once trimmed, or the
\* routine request over a non-empty list of catalog products
UserContributions ==
  {UserMessage(Trim(t)) : t \in {x \in Texts : Trim(x) # <<>>}}
    \cup {RoutineMessage(SelectionOf(ids)) : ids \in DistinctSeqs(CatalogIds) \ {<<>>}}

\* a history of the kind the claim allows: the system message first, then
\* only user contributions and replies of the endpoint
ConversationOnly(log) ==
  /\ Len(log) >= 1
  /\ log[1] = SystemMessage
  /\ \A i \in 2..Len(log) :
       \/ log[i] \in UserContributions
       \/ log[i] \in {AssistantMessage(t) : t \in Replies}

\* C16: the conversation history, and every array sent to the endpoint, holds
\* the system message, user contributions and replies returned by
\* sendMessagesToAI, and nothing else: no placeholder, no error notice, no
\* guidance notice.
C16_LogHoldsOnlyConversation ==
  /\ ConversationOnly(messages)
  /\ \A r \in requests : ConversationOnly(r.body)

\* C16 witness: a request has failed, leaving its placeholder and its error
\* notice in the chat window, the guidance notice has been shown as well, and
\* the history holds the system message and the user's text only.
C16_Witness ==
  /\ \E i \in 1..Len(chatWindow) : chatWindow[i].kind = "thinking"
  /\ \E i \in 1..Len(chatWindow) : chatWindow[i].kind = "error"
  /\ \E i \in 1..Len(chatWindow) : chatWindow[i].kind = "guidance"
  /\ messages = <<SystemMessage, UserMessage(<<"a">>)>>

\* the step is restoreSelectionsFromStorage running to its end with the
\* catalog in hand
RestoreSucceeds == \E ids \in DistinctSeqs(StoredIds) : RestoreCompletes(ids)

\* C17 as stated: whatever the user toggled while the restore waited for the
\* catalog, when the restore completes the selected ids are the catalog ids of
\* the stored record, so a product deselected during the wait (and taken out
\* of the record by that) is not selected again.
C17_RestoreKeepsUserChanges ==
  [][RestoreSucceeds =>
       KeySet(selectedProducts') = RecordIdSet(storage') \cap CatalogIds]_vars

\* the step settles request r with a reply
RequestSucceeds(r, resp) ==
  /\ ~sendMessagesToAI(resp).threw
  /\ ChatResume(r, resp) \/ RoutineResume(r, resp)

\* the texts of the assistant replies shown in the chat window, in document order
VisibleReplies ==
  LET shown == SelectSeq(chatWindow, LAMBDA e : e.role = "assistant" /\ e.kind = "text")
  IN [i \in 1..Len(shown) |-> shown[i].text]

\* the texts of the assistant messages of the history, in order
LoggedReplies ==
  LET logged == SelectSeq(messages, LAMBDA m : m.role = "assistant")
  IN [i \in 1..Len(logged) |-> logged[i].content.text]

\* C18 as stated: a request that succeeds takes its own placeholder, and
\* nothing else, out of the chat window before the reply is appended; and
\* whenever no request is in flight the replies shown are the assistant
\* messages of the history, in the same order.
C18_SuccessRemovesOwnPlaceholder ==
  /\ [][\A r \in requests, resp \in Responses :
          RequestSucceeds(r, resp) =>
            chatWindow' =
              Append(SelectSeq(chatWindow, LAMBDA e : ~IsPlaceholder(e, r.id)),
                     [role |-> "assistant", kind |-> "text",
                      text |-> sendMessagesToAI(resp).text, req |-> r.id])]_vars
  /\ [](requests = {} => VisibleReplies = LoggedReplies)

\* C19 as stated: whenever no completion request is in flight, the routine
\* button is disabled exactly when nothing is selected.
C19_RoutineButtonFollowsSelection ==
  requests = {} => (generateRoutineBtnDisabled <=> selectedProducts = <<>>)

\* C20: between handler steps, every product card shown carries the .selected
\* class exactly when its id is a key of the selection.
C20_HighlightFollowsSelection ==
  \A i \in 1..Len(productsContainer.cards) :
    productsContainer.cards[i].selected
      <=> productsContainer.cards[i].id \in KeySet(selectedProducts)

\* C20 witness: the cards of a category were on show with nothing selected
\* when the restore finished; the card of the product it restored is
\* highlighted.
C20_Witness ==
  /\ lastOp.op = "restoreResume"
  /\ lastOp.sel = <<>>
  /\ \E i \in 1..Len(productsContainer.cards) :
       /\ productsContainer.cards[i].selected
       /\ productsContainer.cards[i].id \in KeySet(selectedProducts)

====
